---- MODULE Spec2Model ----
(***************************************************************************)
(* A model of metenergy_data (src/metenergy_data.py): the regression       *)
(* demand model, the wind and PV capacity-factor conversions, the          *)
(* hydropower inflow reconstruction and the cached zenodo download.        *)
(*                                                                         *)
(* Numbers.  Real quantities are fixed-point integers with Scale units per *)
(* 1.0 (temperatures, regression features, loads, wind speeds).  Solar     *)
(* irradiance is given in whole W m**-2.  A float cell of a pandas object  *)
(* is <<v>> for the number v and <<>> for not-a-number.                    *)
(*                                                                         *)
(* Time.  A timestamp is a whole number of hours since a Monday 00:00.     *)
(***************************************************************************)
EXTENDS Integers, Sequences, FiniteSets, TLC

VARIABLES
    fn,     \* the function being called
    pc,     \* position inside the call
    args,   \* the arguments of the call (a record, one field per parameter)
    loc,    \* the local variables of the call (a record)
    ret,    \* the returned object, once the call has returned
    err,    \* the exception that ended the call, "" when none
    disk    \* the download cache on disk (used by get_demand_entsoe_zenodo)

vars == <<fn, pc, args, loc, ret, err, disk>>

\* ------------------------------------------------------------------ bounds

\* fixed-point resolution: units per 1.0
Scale == 20
\* longest input series
MaxLen == 2

\* ------------------------------------------------------------- float cells

NaN == <<>>
Num(v) == <<v>>
IsNaN(c) == c = <<>>

CAdd(a, b) == IF IsNaN(a) \/ IsNaN(b) THEN NaN ELSE Num(a[1] + b[1])
CSub(a, b) == IF IsNaN(a) \/ IsNaN(b) THEN NaN ELSE Num(a[1] - b[1])
\* a fixed-point cell times a whole number
CMulInt(a, n) == IF IsNaN(a) THEN NaN ELSE Num(a[1] * n)
\* a comparison with not-a-number is False
CLess(a, b) == ~IsNaN(a) /\ ~IsNaN(b) /\ a[1] < b[1]
CGreater(a, b) == ~IsNaN(a) /\ ~IsNaN(b) /\ a[1] > b[1]

\* a whole number as a fixed-point number
FP(n) == n * Scale

\* ---------------------------------------------------------------- pandas

\* pd.Series: data by position, labelled by index; dtindex says whether the
\* index is a DatetimeIndex
Series(index, data, dtindex) == [index |-> index, data |-> data, dtindex |-> dtindex]

NoSeries == Series(<<>>, <<>>, FALSE)

\* DatetimeIndex.hour and DatetimeIndex.dayofweek (Monday = 0)
Hour(t) == t % 24
DayOfWeek(t) == (t \div 24) % 7

\* the sum of the cells of a set of positions of a row, skipping not-a-number
\* (pandas' skipna = True: a row of not-a-numbers sums to 0)
RECURSIVE SumSkipNaN(_, _)
SumSkipNaN(row, keys) ==
    IF keys = {} THEN 0
    ELSE LET k == CHOOSE q \in keys : TRUE
             rest == SumSkipNaN(row, keys \ {k})
         IN IF IsNaN(row[k]) THEN rest ELSE row[k][1] + rest

\* Series.min(): the least number of the data, not-a-number when there is none
SeriesMin(s) ==
    LET nums == {s.data[k][1] : k \in {j \in DOMAIN s.data : ~IsNaN(s.data[j])}}
    IN IF nums = {} THEN NaN ELSE Num(CHOOSE m \in nums : \A n \in nums : m <= n)

\* a Series aligned to another index by label: the value carried by the label,
\* not-a-number for a label the Series does not hold
Reindex(s, index) ==
    [k \in DOMAIN index |->
        IF \E j \in DOMAIN s.index : s.index[j] = index[k]
        THEN s.data[CHOOSE j \in DOMAIN s.index : s.index[j] = index[k]]
        ELSE NaN]

\* ------------------------------------------------------ Kelvin heuristic

\* 200 degrees
KelvinThreshold == 200
\* 273.15 degrees, in hundredths of a degree
KelvinOffsetCenti == 27315
KelvinOffset == (KelvinOffsetCenti * Scale) \div 100

TmpMinAboveThresholdOrEqual(s) == ~CLess(SeriesMin(s), Num(FP(KelvinThreshold))) /\ ~IsNaN(SeriesMin(s))

\* `tmp.min() > 200`
TmpMinAboveThreshold(s) == CGreater(SeriesMin(s), Num(FP(KelvinThreshold)))

\* `tmp - 273.15`
ShiftToCelsius(s) ==
    [s EXCEPT !.data = [k \in DOMAIN s.data |-> CSub(s.data[k], Num(KelvinOffset))]]

\* `if tmp.min() > 200: tmp = tmp - 273.15`
KelvinHeuristic(s) == IF TmpMinAboveThreshold(s) THEN ShiftToCelsius(s) ELSE s

\* ---------------------------------------------------------- get_demand_met

HourKeys ==
    <<"hour01", "hour02", "hour03", "hour04", "hour05", "hour06", "hour07", "hour08",
      "hour09", "hour10", "hour11", "hour12", "hour13", "hour14", "hour15", "hour16",
      "hour17", "hour18", "hour19", "hour20", "hour21", "hour22", "hour23">>

\* the column names the predictors are given for dayofweek 0 .. 6
WdayColumns ==
    <<"wday01", "wday02", "wday03", "wday04", "wzoneday05", "wday06", "wday07">>

XColumns ==
    {"cool", "heat", "ssrd", "holTRUE"}
        \cup {HourKeys[h] : h \in DOMAIN HourKeys}
        \cup {WdayColumns[d] : d \in DOMAIN WdayColumns}

\* `0 if x < 24 else x - 24` and `0 if x > 15 else 15 - x`
CoolThreshold == 24
HeatThreshold == 15
Cool(c) == IF CLess(c, Num(FP(CoolThreshold))) THEN Num(0) ELSE CSub(c, Num(FP(CoolThreshold)))
Heat(c) == IF CGreater(c, Num(FP(HeatThreshold))) THEN Num(0) ELSE CSub(Num(FP(HeatThreshold)), c)

\* `(base_index.hour == h)*1`
Flag(b) == IF b THEN Num(FP(1)) ELSE Num(FP(0))

\* the predictors x, a DataFrame over base_index: cool and heat are built from
\* the list of tmp's values (by position), ssr is a Series and is aligned to
\* base_index by label, the calendar columns are arrays over base_index and
\* holTRUE is the scalar 0
Predictors(tmpC, ssrS, base_index) ==
    [c \in XColumns |->
        [k \in DOMAIN base_index |->
            CASE c = "cool" -> Cool(tmpC.data[k])
              [] c = "heat" -> Heat(tmpC.data[k])
              [] c = "ssrd" ->
                    LET v == Reindex(ssrS, base_index)[k]
                    IN IF IsNaN(v) THEN NaN ELSE Num(FP(v[1]))
              [] c = "holTRUE" -> Num(FP(0))
              [] \E h \in DOMAIN HourKeys : HourKeys[h] = c ->
                    Flag(Hour(base_index[k]) = CHOOSE h \in DOMAIN HourKeys : HourKeys[h] = c)
              [] OTHER ->
                    Flag(DayOfWeek(base_index[k]) + 1
                            = CHOOSE d \in DOMAIN WdayColumns : WdayColumns[d] = c)]]

\* `x * coefs`: the columns of x and the labels of coefs are aligned; a column
\* of the union that x or coefs does not hold is not-a-number
TimesCoefs(x, cf, n) ==
    [c \in (DOMAIN x) \cup (DOMAIN cf) |->
        [k \in 1..n |->
            IF c \in DOMAIN x /\ c \in DOMAIN cf THEN CMulInt(x[c][k], cf[c]) ELSE NaN]]

RowSumPropagateNaN(prod, k) ==
    IF \E c \in DOMAIN prod : IsNaN(prod[c][k]) THEN NaN
    ELSE Num(SumSkipNaN([c \in DOMAIN prod |-> prod[c][k]], DOMAIN prod))

\* `.sum(axis=1)` of one row
RowSum(prod, k) == Num(SumSkipNaN([c \in DOMAIN prod |-> prod[c][k]], DOMAIN prod))

\* `norm_load = (x * coefs).sum(axis=1)`
NormLoad(x, cf, n) == [k \in 1..n |-> RowSum(TimesCoefs(x, cf, n), k)]

\* `final_load = (norm_load * (max_load - min_load)) + min_load`
FinalLoad(norm_load, min_load, max_load) ==
    [k \in DOMAIN norm_load |->
        CAdd(CMulInt(norm_load[k], max_load - min_load), Num(FP(min_load)))]

\* `base_index = tmp.index if timeline is None else timeline`
BaseIndex(tmpS, timeline) == IF timeline.given THEN timeline.index ELSE tmpS.index

\* the cache of a specification that makes no use of it
NoDisk == [dir |-> FALSE, files |-> {}]

\* the state of a finished or failed call
Raise(e) == /\ pc' = "raised"
            /\ err' = e
            /\ UNCHANGED <<disk, fn, args, loc, ret>>

\* the asserts that open get_demand_met and get_PV_cf
InputsValid(a) ==
    /\ a.tmp.dtindex
    /\ a.ssr.dtindex
    /\ Len(a.tmp.data) = Len(a.ssr.data)

DemandCheckInputs ==
    /\ fn = "get_demand_met" /\ pc = "call"
    /\ IF InputsValid(args)
       THEN pc' = "checked" /\ UNCHANGED <<disk, fn, args, loc, ret, err>>
       ELSE Raise("AssertionError")

DemandKelvin ==
    /\ fn = "get_demand_met" /\ pc = "checked"
    /\ loc' = [loc EXCEPT !.tmp = KelvinHeuristic(loc.tmp),
                          !.shifts = IF KelvinHeuristic(loc.tmp) = loc.tmp
                                     THEN loc.shifts ELSE loc.shifts + 1]
    /\ pc' = "celsius"
    /\ UNCHANGED <<disk, fn, args, ret, err>>

\* pd.Series(data = [...], index = base_index) takes a list as long as the index
DemandPredictors ==
    /\ fn = "get_demand_met" /\ pc = "celsius"
    /\ LET base_index == BaseIndex(loc.tmp, args.timeline)
       IN IF Len(base_index) = Len(loc.tmp.data)
          THEN /\ loc' = [loc EXCEPT !.base_index = base_index,
                                     !.x = Predictors(loc.tmp, args.ssr, base_index)]
               /\ pc' = "predictors"
               /\ UNCHANGED <<disk, fn, args, ret, err>>
          ELSE Raise("ValueError")

DemandLoad ==
    /\ fn = "get_demand_met" /\ pc = "predictors"
    /\ LET norm_load == NormLoad(loc.x, args.coefs, Len(loc.base_index))
           final_load == FinalLoad(norm_load, args.min_load, args.max_load)
       IN ret' = Series(loc.base_index, final_load, TRUE)
    /\ pc' = "done"
    /\ UNCHANGED <<disk, fn, args, loc, err>>

NextDemand == DemandCheckInputs \/ DemandKelvin \/ DemandPredictors \/ DemandLoad

\* ------------------------------------------------- get_demand_met: inputs

\* the coefficients the documentation names
WdayKeys == <<"wday01", "wday02", "wday03", "wday04", "wday05", "wday06", "wday07">>

DocKeys ==
    {"cool", "heat", "ssrd", "holTRUE", "hour24"}
        \cup {HourKeys[h] : h \in DOMAIN HourKeys}
        \cup {WdayKeys[d] : d \in DOMAIN WdayKeys}

\* the predictors the regression uses: the documented ones but hour24
ExpectedKeys == DocKeys \ {"hour24"}

\* a coefficient set with a different weight for every predictor
FullCoefs ==
    [c \in DocKeys |->
        CASE c = "cool" -> 3
          [] c = "heat" -> 2
          [] c = "ssrd" -> 5
          [] c = "holTRUE" -> 7
          [] c = "hour24" -> 9
          [] \E h \in DOMAIN HourKeys : HourKeys[h] = c ->
                10 + (CHOOSE h \in DOMAIN HourKeys : HourKeys[h] = c)
          [] OTHER -> 40 + 5 * (CHOOSE d \in DOMAIN WdayKeys : WdayKeys[d] = c)]

Without(cf, keys) == [c \in (DOMAIN cf) \ keys |-> cf[c]]

DroppedKeySets == {{}, {"cool", "hour05"}, {"heat", "ssrd", "holTRUE", "wday03"}}

CoefChoices == {Without(FullCoefs, ks) : ks \in DroppedKeySets}

\* 14 and 25 degrees Celsius, 200 degrees, 14 degrees Celsius in Kelvin, 480 degrees
TmpValues == {FP(14), FP(25), FP(200), FP(14) + KelvinOffset, FP(480)}

\* no irradiance, and an irradiance that differs from timestamp to timestamp
SsrChoices(n) == {[k \in 1..n |-> Num(0)], [k \in 1..n |-> Num(k)]}

\* one timestamp for every hour of the day, over all seven days of the week
StartStamps == {h + 24 * (h % 7) : h \in 0..23}

\* n hourly timestamps from s
HourlyIndex(s, n) == [k \in 1..n |-> s + (k - 1)]

NoTimeline == [given |-> FALSE, index |-> <<>>]
Timeline(index) == [given |-> TRUE, index |-> index]

\* no timeline, a timeline one hour later than the index of the series (for a
\* series of one timestamp no label is shared, for a longer one some are), and
\* a timeline one timestamp short
TimelineChoices(s, n) ==
    {NoTimeline, Timeline(HourlyIndex(s + 1, n)), Timeline(HourlyIndex(s, n - 1))}

Cells(values, n) == {[k \in 1..n |-> Num(f[k])] : f \in [1..n -> values]}

DemandLocals(a) == [tmp |-> a.tmp, shifts |-> 0, base_index |-> <<>>, x |-> <<>>]

InitDemand ==
    /\ disk = NoDisk
    /\ fn = "get_demand_met" /\ pc = "call" /\ err = "" /\ ret = NoSeries
    /\ \E n \in 1..MaxLen, s \in StartStamps :
         \/ \E tv \in Cells(TmpValues, n), sv \in SsrChoices(n),
               cf \in CoefChoices, tl \in TimelineChoices(s, n) :
               args = [tmp |-> Series(HourlyIndex(s, n), tv, TRUE),
                       ssr |-> Series(HourlyIndex(s, n), sv, TRUE),
                       coefs |-> cf, min_load |-> 10, max_load |-> 50, timeline |-> tl]
         \/ \E td \in BOOLEAN, sd \in BOOLEAN, m \in {n - 1, n} :
               /\ ~(td /\ sd /\ m = n) /\ s = 0
               /\ args = [tmp |-> Series(HourlyIndex(s, n), [k \in 1..n |-> Num(FP(14))], td),
                          ssr |-> Series(HourlyIndex(s, m), [k \in 1..m |-> Num(0)], sd),
                          coefs |-> FullCoefs, min_load |-> 10, max_load |-> 50,
                          timeline |-> NoTimeline]
    /\ loc = DemandLocals(args)

\* ------------------------------------------------------------- get_PV_cf

\* T_ref = 25., eff_ref = 0.9 (in tenths), beta_ref = 0.0042 (in ten-thousandths),
\* G_ref = 1000.
T_ref == 25
EffRefTenths == 9
BetaRefE4 == 42
G_ref == 1000

\* a relative efficiency is a whole number of RelEffUnit-ths, a capacity factor
\* a whole number of (RelEffUnit * G_ref)-ths
RelEffUnit == 10 * 10000 * Scale

\* `eff_ref*(1 - beta_ref*(tmp - T_ref))`, Series.index kept
RelEfficiency(tmpC) ==
    [tmpC EXCEPT !.data =
        [k \in DOMAIN tmpC.data |->
            IF IsNaN(tmpC.data[k]) THEN NaN
            ELSE Num(EffRefTenths * (10000 * Scale - BetaRefE4 * (tmpC.data[k][1] - FP(T_ref))))]]

\* the labels of an index, and a set of labels in increasing order
Labels(index) == {index[k] : k \in DOMAIN index}

RECURSIVE Sorted(_)
Sorted(labels) ==
    IF labels = {} THEN <<>>
    ELSE LET m == CHOOSE a \in labels : \A b \in labels : a <= b
         IN <<m>> \o Sorted(labels \ {m})

\* the index of the result of an operation between two Series: their common
\* index when they have the same, else the union of their labels, in order
AlignedIndex(a, b) == IF a.index = b.index THEN a.index ELSE Sorted(Labels(a.index) \cup Labels(b.index))

TimesByPosition(a, b) ==
    Series(a.index,
           [k \in DOMAIN a.index |->
               IF IsNaN(a.data[k]) \/ IsNaN(b.data[k]) THEN NaN
               ELSE Num(a.data[k][1] * b.data[k][1])],
           a.dtindex)

\* `rel_efficiency_of_panel * (ssr/G_ref)`: a product of two Series, each cell
\* the product of the two cells carrying the label, not-a-number when one of
\* them is not-a-number or missing
TimesByLabel(a, b) ==
    LET index == AlignedIndex(a, b)
        x == Reindex(a, index)
        y == Reindex(b, index)
    IN Series(index,
              [k \in DOMAIN index |->
                  IF IsNaN(x[k]) \/ IsNaN(y[k]) THEN NaN ELSE Num(x[k][1] * y[k][1])],
              a.dtindex)

NanKept(data) == data

\* np.nan_to_num: an array of the values, not-a-number replaced by 0
NanToNum(data) == [k \in DOMAIN data |-> IF IsNaN(data[k]) THEN Num(0) ELSE data[k]]

PVCheckInputs ==
    /\ fn = "get_PV_cf" /\ pc = "call"
    /\ IF InputsValid(args)
       THEN pc' = "checked" /\ UNCHANGED <<disk, fn, args, loc, ret, err>>
       ELSE Raise("AssertionError")

PVKelvin ==
    /\ fn = "get_PV_cf" /\ pc = "checked"
    /\ loc' = [loc EXCEPT !.tmp = KelvinHeuristic(loc.tmp),
                          !.shifts = IF KelvinHeuristic(loc.tmp) = loc.tmp
                                     THEN loc.shifts ELSE loc.shifts + 1]
    /\ pc' = "celsius"
    /\ UNCHANGED <<disk, fn, args, ret, err>>

PVCapacityFactor ==
    /\ fn = "get_PV_cf" /\ pc = "celsius"
    /\ loc' = [loc EXCEPT
                 !.base_index = BaseIndex(loc.tmp, args.timeline),
                 !.capacity_factor_of_panel =
                     NanToNum(TimesByLabel(RelEfficiency(loc.tmp), args.ssr).data)]
    /\ pc' = "computed"
    /\ UNCHANGED <<disk, fn, args, ret, err>>

\* pd.DataFrame(data = {'sp': array}, index = base_index) takes an array as
\* long as the index
PVFrame ==
    /\ fn = "get_PV_cf" /\ pc = "computed"
    /\ IF Len(loc.capacity_factor_of_panel) = Len(loc.base_index)
       THEN /\ ret' = Series(loc.base_index, loc.capacity_factor_of_panel, TRUE)
            /\ pc' = "done"
            /\ UNCHANGED <<disk, fn, args, loc, err>>
       ELSE Raise("ValueError")

NextPV == PVCheckInputs \/ PVKelvin \/ PVCapacityFactor \/ PVFrame

\* --------------------------------------------------------- get_PV_cf: inputs

PVTmpCells == {Num(v) : v \in TmpValues} \cup {NaN}

\* no irradiance, G_ref, and a missing value
PVSsrCells == {Num(0), Num(G_ref), NaN}

PVLocals(a) == [tmp |-> a.tmp, shifts |-> 0, base_index |-> <<>>,
                capacity_factor_of_panel |-> <<>>]

\* tmp and ssr are time-indexed series of equal length, over the same
\* timestamps or with ssr one hour later; the few calls of the second disjunct
\* are the ones the asserts refuse
InitPV ==
    /\ disk = NoDisk
    /\ fn = "get_PV_cf" /\ pc = "call" /\ err = "" /\ ret = NoSeries
    /\ \E n \in 1..MaxLen :
         \/ \E tv \in [1..n -> PVTmpCells], sv \in [1..n -> PVSsrCells],
               o \in {0, 1}, tl \in TimelineChoices(0, n) :
               args = [tmp |-> Series(HourlyIndex(0, n), tv, TRUE),
                       ssr |-> Series(HourlyIndex(o, n), sv, TRUE),
                       timeline |-> tl]
         \/ \E td \in BOOLEAN, sd \in BOOLEAN, m \in {n - 1, n} :
               /\ ~(td /\ sd /\ m = n)
               /\ args = [tmp |-> Series(HourlyIndex(0, n), [k \in 1..n |-> Num(FP(T_ref))], td),
                          ssr |-> Series(HourlyIndex(0, m), [k \in 1..m |-> Num(0)], sd),
                          timeline |-> NoTimeline]
    /\ loc = PVLocals(args)

\* ------------------------------------------------- the calls as functions

\* get_demand_met past the Kelvin heuristic (lines 56 to 86), on a tmp that is
\* taken to be in Celsius; the inputs are ones the asserts accept and the
\* index is as long as tmp
DemandCelsiusPath(tmpC, a) ==
    LET base_index == BaseIndex(tmpC, a.timeline)
    IN FinalLoad(NormLoad(Predictors(tmpC, a.ssr, base_index), a.coefs, Len(base_index)),
                 a.min_load, a.max_load)

\* get_PV_cf past the Kelvin heuristic (lines 188 to 198)
PVCelsiusPath(tmpC, a) == NanToNum(TimesByLabel(RelEfficiency(tmpC), a.ssr).data)

\* the values get_demand_met and get_PV_cf return for the temperature series
\* tmpS, the other arguments being those of a
GetDemandMet(tmpS, a) == DemandCelsiusPath(KelvinHeuristic(tmpS), a)
GetPVcf(tmpS, a) == PVCelsiusPath(KelvinHeuristic(tmpS), a)

\* ------------------------------------------ the meteorological conversions

Init == InitDemand \/ InitPV

Next == NextDemand \/ NextPV

Spec == Init /\ [][Next]_vars

\* ----------------------------------------------------- _convert_to_windpower

\* `pc_winds = np.linspace(0,50,501)`: GridPoints wind speeds from 0 to GridTop
GridTop == 50
GridPoints == 501
PcWinds(i) == (FP(GridTop) * i) \div (GridPoints - 1)

\* the knots of the curves are whole numbers of m/s, CurveStep apart at least;
\* a capacity factor of the grid is a whole number of PowerUnit-ths
CurveStep == 10
PowerUnit == 60 * CurveStep * Scale

\* np.interp(x, xp, fp): fp's first and last value outside the curve, linear
\* between the two knots around x inside
Interp(x, xp, fp) ==
    IF x <= xp[1] THEN fp[1] * PowerUnit
    ELSE IF x >= xp[Len(xp)] THEN fp[Len(xp)] * PowerUnit
    ELSE LET j == CHOOSE q \in 1..(Len(xp) - 1) : xp[q] <= x /\ x < xp[q + 1]
         IN fp[j] * PowerUnit
              + ((x - xp[j]) * (fp[j + 1] - fp[j]) * PowerUnit) \div (xp[j + 1] - xp[j])

\* `pc_power = np.interp(pc_winds,power_curve_w,power_curve_p)`, at grid point i
PcPower(curve, i) == Interp(PcWinds(i), curve.ws, curve.cf)

\* an array of rows, and `wind_speed_data.flatten()`: row after row
Shape(a) == <<Len(a), Len(a[1])>>
Flatten(a) ==
    [p \in 1..(Len(a) * Len(a[1])) |-> a[((p - 1) \div Len(a[1])) + 1][((p - 1) % Len(a[1])) + 1]]

\* `np.reshape(wind_power_flattened,(np.shape(wind_speed_data)))`
Reshape(flat, shape) ==
    [r \in 1..shape[1] |-> [c \in 1..shape[2] |-> flat[(r - 1) * shape[2] + c]]]

DigitizeRightClosed(v) ==
    IF IsNaN(v) THEN GridPoints
    ELSE Cardinality({i \in 0..(GridPoints - 1) : PcWinds(i) < v[1]})

\* np.digitize(v, pc_winds, right=False): the number of grid points at or below
\* v, which is i with pc_winds[i-1] <= v < pc_winds[i], 0 below the grid and
\* len(pc_winds) from its top on; not-a-number sorts past every number
Digitize(v) ==
    IF IsNaN(v) THEN GridPoints
    ELSE Cardinality({i \in 0..(GridPoints - 1) : PcWinds(i) <= v[1]})

NoClamp(i) == i

\* `test[test ==len(pc_winds)] = 500`
Clamp(i) == IF i = GridPoints THEN 500 ELSE i

\* pc_power[i] for a Python index: a negative one counts from the end
InRange(i) == -GridPoints <= i /\ i < GridPoints
PyIndex(i) == IF i < 0 THEN i + GridPoints ELSE i

\* `0.5*(pc_power[test-1]+pc_power[test])`, in (2 * PowerUnit)-ths
WindPower(curve, i) == PcPower(curve, PyIndex(i - 1)) + PcPower(curve, PyIndex(i))

WindDigitize ==
    /\ fn = "_convert_to_windpower" /\ pc = "call"
    /\ LET reshaped_speed == Flatten(args.wind_speed_data)
       IN loc' = [loc EXCEPT !.test = [p \in DOMAIN reshaped_speed |-> Digitize(reshaped_speed[p])]]
    /\ pc' = "digitized"
    /\ UNCHANGED <<disk, fn, args, ret, err>>

WindClamp ==
    /\ fn = "_convert_to_windpower" /\ pc = "digitized"
    /\ loc' = [loc EXCEPT !.test = [p \in DOMAIN loc.test |-> Clamp(loc.test[p])]]
    /\ pc' = "clamped"
    /\ UNCHANGED <<disk, fn, args, ret, err>>

WindAverage ==
    /\ fn = "_convert_to_windpower" /\ pc = "clamped"
    /\ IF \A p \in DOMAIN loc.test : InRange(loc.test[p] - 1) /\ InRange(loc.test[p])
       THEN /\ ret' = Reshape([p \in DOMAIN loc.test |->
                                  Num(WindPower(args.power_curve_data, loc.test[p]))],
                              Shape(args.wind_speed_data))
            /\ pc' = "done"
            /\ UNCHANGED <<disk, fn, args, loc, err>>
       ELSE Raise("IndexError")

NextWind == WindDigitize \/ WindClamp \/ WindAverage

\* ---------------------------------------------- _convert_to_windpower: inputs

\* most knots of a power curve
MaxKnots == 3
\* most rows and most columns of the array of wind speeds
MaxRows == 2
MaxCols == 2

KnotSpeeds == {0, CurveStep, GridTop - CurveStep, GridTop}

\* the strictly increasing sequences of n of a set of numbers
Increasing(S, n) == {q \in [1..n -> S] : \A k \in 1..(n - 1) : q[k] < q[k + 1]}

\* the curves of two to MaxKnots knots, each knot a capacity factor of 0 or 1
Curves ==
    UNION {{[ws |-> [k \in 1..n |-> FP(w[k])], cf |-> c] :
                w \in Increasing(KnotSpeeds, n), c \in [1..n -> {0, 1}]} : n \in 2..MaxKnots}

\* wind speeds below, on and between the points of the grid, at and past its
\* top, and a missing value; an array holds consecutive ones, row after row
WindSamples ==
    <<Num(FP(GridTop) + FP(10)), NaN, Num(-1), Num(0), Num(1), Num(PcWinds(1)),
      Num(FP(12) + 1), Num(FP(GridTop) - 1), Num(FP(GridTop)), Num(FP(GridTop) + 1),
      Num(PcWinds(7)), Num(0)>>

WindArrays ==
    {[r \in 1..rows |-> [c \in 1..cols |-> WindSamples[o + (r - 1) * cols + c]]] :
        rows \in 1..MaxRows, cols \in 1..MaxCols,
        o \in {q \in 0..Len(WindSamples) : q + MaxRows * MaxCols <= Len(WindSamples)}}

InitWind ==
    /\ disk = NoDisk
    /\ fn = "_convert_to_windpower" /\ pc = "call" /\ err = "" /\ ret = <<>>
    /\ \E w \in WindArrays, curve \in Curves :
         args = [wind_speed_data |-> w, power_curve_data |-> curve]
    /\ loc = [test |-> <<>>]

SpecWind == InitWind /\ [][NextWind]_vars

\* ---------------------------------------------------------- get_inflow_entsoe

\* In this function a timestamp is a whole number of half hours, so that
\* observations off the top of the hour exist.
Minute(t) == 30 * (t % 2)

\* A series of the platform is a sequence of observations [index, value] with
\* strictly increasing timestamps.

\* `hgen.loc[hgen.index.minute == 0]`
RECURSIVE TopOfHour(_)
TopOfHour(obs) ==
    IF obs = <<>> THEN <<>>
    ELSE IF Minute(obs[1].index) = 0 THEN <<obs[1]>> \o TopOfHour(Tail(obs))
    ELSE TopOfHour(Tail(obs))

\* `hgen.reset_index().merge(sto_j, how = 'left', on = 'index')`: one row per
\* generation observation, with the storage and the sto_index of the storage
\* reading of the very same timestamp, not-a-number when there is none
MergeLeft(hgen, sto) ==
    [k \in DOMAIN hgen |->
        LET hit == {j \in DOMAIN sto : sto[j].index = hgen[k].index}
        IN [index |-> hgen[k].index,
            Hydro_Water_Reservoir |-> hgen[k].value,
            storage |-> IF hit = {} THEN NaN ELSE sto[CHOOSE j \in hit : TRUE].value,
            sto_index |-> IF hit = {} THEN NaN ELSE Num(sto[CHOOSE j \in hit : TRUE].index)]]

\* `fillna(method = 'ffill')` of a column of cells: a not-a-number takes the
\* last number above it, and stays when there is none
FillForward(cells) ==
    [k \in DOMAIN cells |->
        LET above == {j \in 1..k : ~IsNaN(cells[j])}
        IN IF above = {} THEN NaN ELSE cells[CHOOSE j \in above : \A i \in above : i <= j]]

\* the sum of a set of cells of a column, not-a-number skipped
RECURSIVE SumRows(_, _)
SumRows(cells, rows) ==
    IF rows = {} THEN 0
    ELSE LET k == CHOOSE q \in rows : TRUE
         IN (IF IsNaN(cells[k]) THEN 0 ELSE cells[k][1]) + SumRows(cells, rows \ {k})

Column(rows, name) == [k \in DOMAIN rows |-> rows[k][name]]

\* `groupby(['sto_index']).sum(numeric_only=True)`: one row per sto_index held
\* by the column (rows without one are dropped), in increasing order, with the
\* sums of the numeric columns
GroupBySum(rows, sto_index) ==
    LET keys == Sorted({sto_index[k][1] : k \in {j \in DOMAIN rows : ~IsNaN(sto_index[j])}})
    IN [g \in DOMAIN keys |->
          LET members == {k \in DOMAIN rows : sto_index[k] = Num(keys[g])}
          IN [sto_index |-> keys[g],
              Hydro_Water_Reservoir |-> Num(SumRows(Column(rows, "Hydro_Water_Reservoir"), members)),
              storage |-> Num(SumRows(Column(rows, "storage"), members))]]

\* Series.diff(): each cell minus the one above, not-a-number for the first
Diff(cells) == [k \in DOMAIN cells |-> IF k = 1 THEN NaN ELSE CSub(cells[k], cells[k - 1])]

ShiftDown(cells) == [k \in DOMAIN cells |-> IF k = 1 THEN NaN ELSE cells[k - 1]]

\* Series.shift(-1): each cell takes the one below, not-a-number for the last
ShiftUp(cells) == [k \in DOMAIN cells |-> IF k = Len(cells) THEN NaN ELSE cells[k + 1]]

\* `inf_df['lagged'] = inf_df['storage'].diff().shift(-1)` and
\* `inf_df['inflow'] = inf_df['Hydro Water Reservoir'] + inf_df['lagged']`
WithInflow(rows) ==
    LET lagged == ShiftUp(Diff(Column(rows, "storage")))
    IN [k \in DOMAIN rows |->
          [sto_index |-> rows[k].sto_index,
           Hydro_Water_Reservoir |-> rows[k].Hydro_Water_Reservoir,
           storage |-> rows[k].storage,
           lagged |-> lagged[k],
           inflow |-> CAdd(rows[k].Hydro_Water_Reservoir, lagged[k])]]

TimelineIsIndex(a) == a.timeline.dtindex

\* the asserts on timeline
TimelineValid(a) == a.timeline.dtindex /\ a.timeline.tz

InflowCheckTimeline ==
    /\ fn = "get_inflow_entsoe" /\ pc = "call"
    /\ IF TimelineValid(args)
       THEN pc' = "checked" /\ UNCHANGED <<disk, fn, args, loc, ret, err>>
       ELSE Raise("AssertionError")

\* the client is created and the generation queried and filtered
InflowQueryGeneration ==
    /\ fn = "get_inflow_entsoe" /\ pc = "checked"
    /\ loc' = [loc EXCEPT !.client = TRUE,
                          !.queries = Append(loc.queries, "query_generation"),
                          !.hgen = TopOfHour(args.platform.generation)]
    /\ pc' = "generation"
    /\ UNCHANGED <<disk, fn, args, ret, err>>

InflowQueryStorage ==
    /\ fn = "get_inflow_entsoe" /\ pc = "generation"
    /\ loc' = [loc EXCEPT !.queries = Append(loc.queries,
                                             "query_aggregate_water_reservoirs_and_hydro_storage"),
                          !.sto = args.platform.storage]
    /\ pc' = "storage"
    /\ UNCHANGED <<disk, fn, args, ret, err>>

\* merge, forward fill of sto_index, and the sums by sto_index
InflowGroup ==
    /\ fn = "get_inflow_entsoe" /\ pc = "storage"
    /\ LET merged == MergeLeft(loc.hgen, loc.sto)
       IN loc' = [loc EXCEPT !.inf_df = GroupBySum(merged, FillForward(Column(merged, "sto_index")))]
    /\ pc' = "grouped"
    /\ UNCHANGED <<disk, fn, args, ret, err>>

InflowReturn ==
    /\ fn = "get_inflow_entsoe" /\ pc = "grouped"
    /\ ret' = WithInflow(loc.inf_df)
    /\ pc' = "done"
    /\ UNCHANGED <<disk, fn, args, loc, err>>

NextInflow ==
    \/ InflowCheckTimeline
    \/ InflowQueryGeneration
    \/ InflowQueryStorage
    \/ InflowGroup
    \/ InflowReturn

\* -------------------------------------------------- get_inflow_entsoe: inputs

\* the half hours of the period queried
Horizon == 6
\* most observations of a series of the platform
MaxObs == 3

\* a generation of 10 on the top of the hour and of 3 off it
Generation(t) == IF Minute(t) = 0 THEN 10 ELSE 3

\* the storage readings 100, 90, 70, 40, ...
Storage(k) == 100 - 5 * k * (k - 1)

Stamps == UNION {Increasing(0..(Horizon - 1), n) : n \in 0..MaxObs}

InitInflow ==
    /\ disk = NoDisk
    /\ fn = "get_inflow_entsoe" /\ pc = "call" /\ err = "" /\ ret = <<>>
    /\ \E g \in Stamps, st \in Stamps, d \in BOOLEAN, z \in BOOLEAN :
         /\ (~d \/ ~z) => (g = <<>> /\ st = <<>>)
         /\ args = [timeline |-> [dtindex |-> d, tz |-> z],
                    platform |->
                      [generation |-> [k \in DOMAIN g |-> [index |-> g[k], value |-> Num(Generation(g[k]))]],
                       storage |-> [k \in DOMAIN st |-> [index |-> st[k], value |-> Num(Storage(k))]]]]
    /\ loc = [client |-> FALSE, queries |-> <<>>, hgen |-> <<>>, sto |-> <<>>, inf_df |-> <<>>]

SpecInflow == InitInflow /\ [][NextInflow]_vars

\* ------------------------------------------------- get_demand_entsoe_zenodo

\* In this specification several calls run at once: pc, args, loc, ret and err
\* hold one value per call.  disk.dir says whether the directory DATA_PATH
\* exists, disk.files maps the zones that have a file FILE_TARGET to "partial"
\* (being written) or "complete", and disk.downloads counts the downloads
\* started per zone.

\* the zones the documentation lists, and the zones the code accepts
DocumentedZones == {"BE", "DE", "ES", "FR", "IT", "NL", "PL", "PT", "RO", "SE"}
AcceptedZones == {"BE", "DE", "ES", "FR", "IT", "NL", "PL", "RO", "SE"}

\* what the call returns: the table of a zone, or None
Table(zone) == [none |-> FALSE, zone |-> zone]
None == [none |-> TRUE, zone |-> ""]

FileExists(d, zone) == zone \in DOMAIN d.files

Step(c, to) == pc' = [pc EXCEPT ![c] = to]

Fail(c, e) ==
    /\ pc' = [pc EXCEPT ![c] = "raised"]
    /\ err' = [err EXCEPT ![c] = e]

\* `if not os.path.exists(DATA_PATH):`
ZenodoCheckDir(c) ==
    /\ pc[c] = "call"
    /\ Step(c, IF disk.dir THEN "zone" ELSE "makedirs")
    /\ UNCHANGED <<fn, args, loc, ret, err, disk>>

\* `os.makedirs(DATA_PATH)`: FileExistsError when the directory exists
ZenodoMakeDirs(c) ==
    /\ pc[c] = "makedirs"
    /\ IF disk.dir
       THEN Fail(c, "FileExistsError") /\ UNCHANGED <<fn, args, loc, ret, disk>>
       ELSE /\ disk' = [disk EXCEPT !.dir = TRUE]
            /\ Step(c, "zone")
            /\ UNCHANGED <<fn, args, loc, ret, err>>

\* `if zone in [...]`, else the warning and no return value
ZenodoCheckZone(c) ==
    /\ pc[c] = "zone"
    /\ IF args[c].zone \in AcceptedZones
       THEN Step(c, "exists") /\ UNCHANGED <<fn, args, loc, ret, err, disk>>
       ELSE /\ Step(c, "done")
            /\ loc' = [loc EXCEPT ![c].warned = TRUE]
            /\ ret' = [ret EXCEPT ![c] = None]
            /\ UNCHANGED <<fn, args, err, disk>>

\* `if not os.path.exists(FILE_TARGET):`
ZenodoCheckFile(c) ==
    /\ pc[c] = "exists"
    /\ Step(c, IF FileExists(disk, args[c].zone) THEN "read" ELSE "retrieve")
    /\ UNCHANGED <<fn, args, loc, ret, err, disk>>

\* urllib.request.urlretrieve opens FILE_TARGET for writing ...
ZenodoRetrieveOpen(c) ==
    /\ pc[c] = "retrieve"
    /\ disk' = [disk EXCEPT
                  !.files = [z \in (DOMAIN disk.files) \cup {args[c].zone} |->
                                IF z = args[c].zone THEN "partial" ELSE disk.files[z]],
                  !.downloads = [disk.downloads EXCEPT ![args[c].zone] = @ + 1]]
    /\ loc' = [loc EXCEPT ![c].downloaded = TRUE]
    /\ Step(c, "retrieving")
    /\ UNCHANGED <<fn, args, ret, err>>

\* ... and returns once the whole file is written
ZenodoRetrieveClose(c) ==
    /\ pc[c] = "retrieving"
    /\ disk' = [disk EXCEPT !.files[args[c].zone] = "complete"]
    /\ Step(c, "read")
    /\ UNCHANGED <<fn, args, loc, ret, err>>

\* `dem = pd.read_parquet(FILE_TARGET)`: a file still being written is no
\* parquet file
ZenodoRead(c) ==
    /\ pc[c] = "read"
    /\ IF disk.files[args[c].zone] = "complete"
       THEN /\ ret' = [ret EXCEPT ![c] = Table(args[c].zone)]
            /\ Step(c, "done")
            /\ UNCHANGED <<fn, args, loc, err, disk>>
       ELSE Fail(c, "ArrowInvalid") /\ UNCHANGED <<fn, args, loc, ret, disk>>

NextZenodo ==
    \/ \E c \in DOMAIN pc : ZenodoCheckDir(c)
    \/ \E c \in DOMAIN pc : ZenodoMakeDirs(c)
    \/ \E c \in DOMAIN pc : ZenodoCheckZone(c)
    \/ \E c \in DOMAIN pc : ZenodoCheckFile(c)
    \/ \E c \in DOMAIN pc : ZenodoRetrieveOpen(c)
    \/ \E c \in DOMAIN pc : ZenodoRetrieveClose(c)
    \/ \E c \in DOMAIN pc : ZenodoRead(c)

\* ----------------------------------------- get_demand_entsoe_zenodo: inputs

\* the calls running at once
NumCalls == 2

\* the zones asked for: two the code accepts, the documented one it does not,
\* and one that is not documented
RequestedZones == {"BE", "DE", "PT", "XX"}

\* the cache before the calls: no directory, or a directory holding the
\* complete files of some of the zones
InitZenodo ==
    /\ fn = "get_demand_entsoe_zenodo"
    /\ pc = [c \in 1..NumCalls |-> "call"]
    /\ err = [c \in 1..NumCalls |-> ""]
    /\ ret = [c \in 1..NumCalls |-> None]
    /\ loc = [c \in 1..NumCalls |-> [warned |-> FALSE, downloaded |-> FALSE]]
    /\ \E zones \in [1..NumCalls -> RequestedZones] :
         args = [c \in 1..NumCalls |-> [zone |-> zones[c]]]
    /\ \E d \in BOOLEAN, cached \in SUBSET (RequestedZones \cap AcceptedZones) :
         /\ ~d => cached = {}
         /\ disk = [dir |-> d,
                    files |-> [z \in cached |-> "complete"],
                    cached |-> cached,
                    downloads |-> [z \in RequestedZones |-> 0]]

SpecZenodo == InitZenodo /\ [][NextZenodo]_vars

\* --------------------------------------------------------- get_demand_entsoe

\* As in get_inflow_entsoe a timestamp is a whole number of half hours, and the
\* load of the platform is a sequence of observations [index, value].

DemandEntsoeCheckTimeline ==
    /\ fn = "get_demand_entsoe" /\ pc = "call"
    /\ IF TimelineValid(args)
       THEN pc' = "checked" /\ UNCHANGED <<disk, fn, args, loc, ret, err>>
       ELSE Raise("AssertionError")

\* the client is created and the load queried
DemandEntsoeQueryLoad ==
    /\ fn = "get_demand_entsoe" /\ pc = "checked"
    /\ loc' = [loc EXCEPT !.client = TRUE,
                          !.queries = Append(loc.queries, "query_load"),
                          !.dem = args.platform.load]
    /\ pc' = "load"
    /\ UNCHANGED <<disk, fn, args, ret, err>>

\* `return dem[dem.index.minute == 0]`
DemandEntsoeReturn ==
    /\ fn = "get_demand_entsoe" /\ pc = "load"
    /\ ret' = TopOfHour(loc.dem)
    /\ pc' = "done"
    /\ UNCHANGED <<disk, fn, args, loc, err>>

NextDemandEntsoe ==
    \/ DemandEntsoeCheckTimeline
    \/ DemandEntsoeQueryLoad
    \/ DemandEntsoeReturn

\* a load of 50, 51, 52, ... over the half hours
Load(t) == 50 + t

DemandEntsoeLocals == [client |-> FALSE, queries |-> <<>>, dem |-> <<>>]

InitDemandEntsoe ==
    /\ disk = NoDisk
    /\ fn = "get_demand_entsoe" /\ pc = "call" /\ err = "" /\ ret = <<>>
    /\ \E l \in Stamps, d \in BOOLEAN, z \in BOOLEAN :
         args = [timeline |-> [dtindex |-> d, tz |-> z],
                 platform |->
                   [load |-> [k \in DOMAIN l |-> [index |-> l[k], value |-> Num(Load(l[k]))]]]]
    /\ loc = DemandEntsoeLocals

\* ------------------------------------------- the four validating functions

InitCalls == InitDemand \/ InitPV \/ InitInflow \/ InitDemandEntsoe

NextCalls == NextDemand \/ NextPV \/ NextInflow \/ NextDemandEntsoe

SpecCalls == InitCalls /\ [][NextCalls]_vars

\* ------------------------------------------------------------------ claims

DemandDone == fn = "get_demand_met" /\ pc = "done"
PVDone == fn = "get_PV_cf" /\ pc = "done"

\* the documented regression: the normalised load of a timestamp t with the
\* Celsius temperature c (fixed-point) and the irradiance s, for a coefficient
\* set cf that holds every documented predictor
Max0(v) == IF v > 0 THEN v ELSE 0

DocNormLoad(t, c, s, cf) ==
    Max0(c - FP(24)) * cf["cool"]
        + Max0(FP(15) - c) * cf["heat"]
        + FP(s) * cf["ssrd"]
        + (IF Hour(t) = 0 THEN 0 ELSE FP(cf[HourKeys[Hour(t)]]))
        + FP(cf[WdayKeys[DayOfWeek(t) + 1]])
        + 0

DocLoad(t, c, s, a) ==
    DocNormLoad(t, c, s, a.coefs) * (a.max_load - a.min_load) + FP(a.min_load)

Friday == 4

\* C1: without a timeline, tmp and ssr sharing their index and every documented
\* coefficient given, the value returned for every timestamp t is
\* norm(t) * (max_load - min_load) + min_load, norm(t) being the documented
\* weighted sum with the coefficient of t's hour and of t's weekday.
C1_DemandFormula ==
    (/\ DemandDone
     /\ ~args.timeline.given
     /\ args.tmp.index = args.ssr.index
     /\ ExpectedKeys \subseteq DOMAIN args.coefs)
    => /\ ret.index = args.tmp.index
       /\ \A k \in DOMAIN ret.index :
            ret.data[k] = Num(DocLoad(ret.index[k], loc.tmp.data[k][1], args.ssr.data[k][1], args))

\* C2: with a timeline as long as tmp and ssr the result is indexed by the
\* timeline and its value at every position k is the documented weighted sum of
\* tmp[k], ssr[k] and the hour and weekday of timeline[k].  Stated for the
\* positions whose timestamp is not a Friday, where C1's formula is the one
\* the code computes.
C2_TimelineDemand ==
    (/\ DemandDone
     /\ args.timeline.given
     /\ ExpectedKeys \subseteq DOMAIN args.coefs)
    => /\ ret.index = args.timeline.index
       /\ \A k \in DOMAIN ret.index :
            DayOfWeek(ret.index[k]) # Friday
            => ret.data[k] = Num(DocLoad(ret.index[k], loc.tmp.data[k][1],
                                         args.ssr.data[k][1], args))

MissingKeys(a) == ~(ExpectedKeys \subseteq DOMAIN a.coefs)

\* the coefficient set with 0 for every expected predictor it lacks
ZeroFilled(cf) == [c \in (DOMAIN cf) \cup ExpectedKeys |-> IF c \in DOMAIN cf THEN cf[c] ELSE 0]

\* C3 as claimed: with a coefficient set lacking an expected predictor, no
\* demand series is returned (the call ends in a lookup failure).
C3_MissingKeyFails == ~(DemandDone /\ MissingKeys(args))

\* C3 as amended: a call whose coefficient set lacks expected predictors and
\* that reaches the regression returns a series of numbers, the very series the
\* coefficient set with 0 for each missing predictor gives.
C3_MissingKeyCountsAsZero ==
    (DemandDone /\ MissingKeys(args))
    => /\ err = ""
       /\ \A k \in DOMAIN ret.data : ~IsNaN(ret.data[k])
       /\ ret.data = FinalLoad(NormLoad(loc.x, ZeroFilled(args.coefs), Len(loc.base_index)),
                               args.min_load, args.max_load)

C3_Witness ==
    /\ DemandDone
    /\ "ssrd" \notin DOMAIN args.coefs
    /\ ~args.timeline.given
    /\ \E k \in DOMAIN args.ssr.data : args.ssr.data[k] # Num(0)

\* a series holds a number and every number it holds exceeds v
AllAbove(s, v) ==
    /\ \E k \in DOMAIN s.data : ~IsNaN(s.data[k])
    /\ \A k \in DOMAIN s.data : ~IsNaN(s.data[k]) => s.data[k][1] > v

ReturnedBy(tmpS) ==
    IF fn = "get_demand_met" THEN GetDemandMet(tmpS, args) ELSE GetPVcf(tmpS, args)

CelsiusPathOn(tmpC) ==
    IF fn = "get_demand_met" THEN DemandCelsiusPath(tmpC, args) ELSE PVCelsiusPath(tmpC, args)

KelvinDone ==
    \/ DemandDone
    \/ PVDone

\* C4 as claimed: for a temperature series whose minimum exceeds 200 the
\* output is the output of the same function on tmp - 273.15.
C4_SameAsCallOnPreShifted ==
    (KelvinDone /\ AllAbove(args.tmp, FP(200)))
    => ret.data = ReturnedBy(ShiftToCelsius(args.tmp))

\* C4 as amended: past the heuristic, a series whose minimum exceeds 200 has
\* been shifted by 273.15 once and the output is the Celsius-path computation
\* on tmp - 273.15, which is the output of the same function on tmp - 273.15
\* when the minimum of tmp - 273.15 does not exceed 200; a series whose minimum
\* is at most 200 is not shifted.
C4_KelvinShiftOnce ==
    (pc \in {"celsius", "predictors", "computed", "done"})
    => IF AllAbove(args.tmp, FP(200))
       THEN /\ loc.shifts = 1
            /\ \A k \in DOMAIN loc.tmp.data :
                 loc.tmp.data[k] = CSub(args.tmp.data[k], Num(KelvinOffset))
            /\ pc = "done" =>
                 /\ ret.data = CelsiusPathOn(ShiftToCelsius(args.tmp))
                 /\ ~AllAbove(ShiftToCelsius(args.tmp), FP(200))
                      => ret.data = ReturnedBy(ShiftToCelsius(args.tmp))
       ELSE /\ loc.shifts = 0
            /\ loc.tmp = args.tmp
            /\ pc = "done" => ret.data = CelsiusPathOn(args.tmp)

C4_Witness ==
    /\ pc = "done"
    /\ loc.shifts = 1
    /\ \E k \in DOMAIN args.tmp.data : args.tmp.data[k] = Num(FP(14) + KelvinOffset)
    /\ \E k \in DOMAIN args.tmp.data : args.tmp.data[k] = Num(FP(480))

\* the documented capacity factor of a Celsius temperature c (fixed-point) and
\* an irradiance s, in (RelEffUnit * G_ref)-ths:
\* 0.9 * (1 - 0.0042 * (c - 25)) * (s / 1000)
DocCapacityFactor(c, s) == 9 * (10000 * Scale - 42 * (c - FP(25))) * s

\* C7: for time-indexed tmp and ssr of equal length (and an output index of
\* that length) the call does not fail and returns one row per timestamp of
\* the output index, holding the documented capacity factor of the temperature
\* and irradiance at that position, 0 where that is not a number.
C7_PVFormula ==
    (/\ fn = "get_PV_cf"
     /\ pc \in {"done", "raised"}
     /\ InputsValid(args)
     /\ Len(BaseIndex(args.tmp, args.timeline)) = Len(args.tmp.data))
    => /\ pc = "done"
       /\ ret.index = BaseIndex(args.tmp, args.timeline)
       /\ DOMAIN ret.data = DOMAIN ret.index
       /\ \A k \in DOMAIN ret.data :
            ret.data[k] =
                IF IsNaN(loc.tmp.data[k]) \/ IsNaN(args.ssr.data[k]) THEN Num(0)
                ELSE Num(DocCapacityFactor(loc.tmp.data[k][1], args.ssr.data[k][1]))

WindDone == fn = "_convert_to_windpower" /\ pc = "done"
WindEnded == fn = "_convert_to_windpower" /\ pc \in {"done", "raised"}

\* the positions of the array of wind speeds, the bin the conversion used for
\* a position, and adjacency of the two grid points averaged for bin i
WindPositions ==
    {rc \in (1..Len(args.wind_speed_data)) \X (1..Len(args.wind_speed_data[1])) : TRUE}
Obs(rc) == args.wind_speed_data[rc[1]][rc[2]]
BinOf(rc) == loc.test[(rc[1] - 1) * Len(args.wind_speed_data[1]) + rc[2]]
Out(rc) == ret[rc[1]][rc[2]]
SameShape ==
    /\ Len(ret) = Len(args.wind_speed_data)
    /\ \A r \in DOMAIN ret : Len(ret[r]) = Len(args.wind_speed_data[r])
Top == FP(GridTop)

\* C5 as claimed: no observation causes a failure, the output has the shape
\* and order of the input, and for every observation v (a number) the bin i
\* used is 500 when v is at or above the top of the grid and else satisfies
\* grid[i-1] <= v < grid[i], the output being the average of the adjacent grid
\* values pc_power[i-1] and pc_power[i], 1 <= i <= 500.
C5_AdjacentBins ==
    WindEnded
    => /\ pc = "done"
       /\ SameShape
       /\ \A rc \in WindPositions :
            ~IsNaN(Obs(rc))
            => LET v == Obs(rc)[1]
                   i == BinOf(rc)
               IN /\ 1 <= i /\ i <= 500
                  /\ IF v >= Top THEN i = 500 ELSE PcWinds(i - 1) <= v /\ v < PcWinds(i)
                  /\ Out(rc) = Num(PcPower(args.power_curve_data, i - 1)
                                     + PcPower(args.power_curve_data, i))

\* C5 as amended: the same for every observation from 0 on; a missing
\* observation uses the last bin too; an observation below 0 gets bin 0 and
\* the average of pc_power[500] and pc_power[0], which are not adjacent.
C5_BinsFromZeroOn ==
    WindEnded
    => /\ pc = "done"
       /\ SameShape
       /\ \A rc \in WindPositions :
            LET i == BinOf(rc)
                power(j) == PcPower(args.power_curve_data, j)
            IN IF IsNaN(Obs(rc)) \/ (~IsNaN(Obs(rc)) /\ Obs(rc)[1] >= Top)
               THEN i = 500 /\ Out(rc) = Num(power(499) + power(500))
               ELSE IF Obs(rc)[1] >= 0
               THEN /\ 1 <= i /\ i <= 500
                    /\ PcWinds(i - 1) <= Obs(rc)[1] /\ Obs(rc)[1] < PcWinds(i)
                    /\ Out(rc) = Num(power(i - 1) + power(i))
               ELSE i = 0 /\ Out(rc) = Num(power(500) + power(0))

C5_Witness ==
    /\ WindDone
    /\ Shape(args.wind_speed_data) = <<2, 2>>
    /\ \E rc \in WindPositions : Obs(rc) = Num(-1) /\ BinOf(rc) = 0
    /\ \E rc \in WindPositions : Obs(rc) = Num(1) /\ BinOf(rc) = 1
    /\ \E rc \in WindPositions : Obs(rc) = Num(PcWinds(1)) /\ BinOf(rc) = 2

\* C6 as claimed: a wind speed of 0 yields pc_power[0] and every wind speed
\* of 50 or more yields pc_power[500] (outputs are in (2 * PowerUnit)-ths).
C6_BoundaryValues ==
    WindDone
    => \A rc \in WindPositions :
         ~IsNaN(Obs(rc))
         => /\ Obs(rc)[1] = 0 => Out(rc) = Num(2 * PcPower(args.power_curve_data, 0))
            /\ Obs(rc)[1] >= Top => Out(rc) = Num(2 * PcPower(args.power_curve_data, 500))

\* C6 as amended: a wind speed of 0 yields the average of pc_power[0] and
\* pc_power[1], every wind speed of 50 or more the average of pc_power[499] and
\* pc_power[500]; that is the curve's first value when the curve starts at or
\* past grid point 1, and the curve's last value when it ends at or before
\* grid point 499.
C6_BoundaryAverages ==
    WindDone
    => \A rc \in WindPositions :
         ~IsNaN(Obs(rc))
         => LET curve == args.power_curve_data
                last == Len(curve.ws)
            IN /\ Obs(rc)[1] = 0
                    => /\ Out(rc) = Num(PcPower(curve, 0) + PcPower(curve, 1))
                       /\ curve.ws[1] >= PcWinds(1)
                            => Out(rc) = Num(2 * curve.cf[1] * PowerUnit)
               /\ Obs(rc)[1] >= Top
                    => /\ Out(rc) = Num(PcPower(curve, 499) + PcPower(curve, 500))
                       /\ curve.ws[last] <= PcWinds(499)
                            => Out(rc) = Num(2 * curve.cf[last] * PowerUnit)

C6_Witness ==
    /\ WindDone
    /\ \E rc \in WindPositions : Obs(rc) = Num(0)
    /\ \E rc \in WindPositions : Obs(rc) = Num(Top)
    /\ args.power_curve_data.ws[1] = 0
    /\ args.power_curve_data.cf[1] # args.power_curve_data.cf[2]
    /\ PcPower(args.power_curve_data, 0) # PcPower(args.power_curve_data, 1)

InflowDone == fn = "get_inflow_entsoe" /\ pc = "done"

Cells3(a, b, c) == <<Num(a), Num(b), Num(c)>>

\* C8: the call does not fail; over the periods p_0 < ... < p_n of the table
\* returned, lagged(p_k) = storage(p_k+1) - storage(p_k) and inflow(p_k) =
\* generation(p_k) + lagged(p_k) for k < n, both are null for p_n; generation
\* 10, 10, 10 with storage 100, 90, 70 gives lagged -10, -20, null and inflow
\* 0, -10, null.
C8_LaggedAndInflow ==
    (fn = "get_inflow_entsoe" /\ pc \in {"done", "raised"} /\ TimelineValid(args))
    => /\ pc = "done"
       /\ \A k \in DOMAIN ret :
            IF k < Len(ret)
            THEN /\ ret[k].sto_index < ret[k + 1].sto_index
                 /\ ret[k].lagged = Num(ret[k + 1].storage[1] - ret[k].storage[1])
                 /\ ret[k].inflow = Num(ret[k].Hydro_Water_Reservoir[1] + ret[k].lagged[1])
            ELSE ret[k].lagged = NaN /\ ret[k].inflow = NaN
       /\ (/\ Column(ret, "Hydro_Water_Reservoir") = Cells3(10, 10, 10)
           /\ Column(ret, "storage") = Cells3(100, 90, 70))
          => /\ Column(ret, "lagged") = <<Num(-10), Num(-20), NaN>>
             /\ Column(ret, "inflow") = <<Num(0), Num(-10), NaN>>

C8_Witness ==
    /\ InflowDone
    /\ Column(ret, "Hydro_Water_Reservoir") = Cells3(10, 10, 10)
    /\ Column(ret, "storage") = Cells3(100, 90, 70)
    /\ Column(ret, "inflow") = <<Num(0), Num(-10), NaN>>

\* the retained generation observations whose most recent storage reading, at
\* or before their timestamp, is reading j
AssignedTo(j) ==
    LET sto == args.platform.storage
        hgen == TopOfHour(args.platform.generation)
    IN {k \in DOMAIN hgen :
          /\ sto[j].index <= hgen[k].index
          /\ \A i \in DOMAIN sto : sto[i].index <= hgen[k].index => sto[i].index <= sto[j].index}

\* C9: every retained generation observation is assigned to the most recent
\* storage reading at or before its timestamp; the table holds one period per
\* storage reading that is assigned observations, with the sum of these
\* observations as its generation and the reading's value as its storage.
C9_MostRecentReading ==
    InflowDone
    => LET sto == args.platform.storage
           hgen == TopOfHour(args.platform.generation)
           used == {j \in DOMAIN sto : AssignedTo(j) # {}}
       IN /\ {ret[k].sto_index : k \in DOMAIN ret} = {sto[j].index : j \in used}
          /\ \A k \in DOMAIN ret : \A j \in used :
               ret[k].sto_index = sto[j].index
               => /\ ret[k].storage = sto[j].value
                  /\ ret[k].Hydro_Water_Reservoir
                        = Num(SumRows([i \in DOMAIN hgen |-> hgen[i].value], AssignedTo(j)))

ZenodoCalls == IF fn = "get_demand_entsoe_zenodo" THEN DOMAIN pc ELSE {}

DistinctAcceptedZones ==
    /\ \A c \in ZenodoCalls : args[c].zone \in AcceptedZones
    /\ \A c, d \in ZenodoCalls : c # d => args[c].zone # args[d].zone

\* C10: calls for distinct available zones, run in parallel from any state of
\* the cache: no call fails, a call that returns returns its own zone's table,
\* and a zone's file is downloaded only when it was absent.
C10_ParallelCallsSafe ==
    (fn = "get_demand_entsoe_zenodo" /\ DistinctAcceptedZones)
    => \A c \in ZenodoCalls :
         /\ pc[c] # "raised"
         /\ pc[c] = "done" => ret[c] = Table(args[c].zone)
         /\ loc[c].downloaded => args[c].zone \notin disk.cached

\* a call of get_demand_entsoe_zenodo that runs while no other call has begun
RunsAlone(c) == \A d \in ZenodoCalls : d # c => pc[d] = "call"

\* C11: a call running alone, from any state of the cache: for every zone the
\* documentation lists it does not fail and returns the zone's table without a
\* warning, having downloaded the file exactly when it was not cached; for
\* every other zone it does not fail, warns, downloads nothing and returns
\* no result.
C11_ZoneAvailability ==
    \A c \in ZenodoCalls :
        RunsAlone(c)
        => /\ pc[c] # "raised"
           /\ pc[c] = "done"
                => IF args[c].zone \in DocumentedZones
                   THEN /\ ret[c] = Table(args[c].zone)
                        /\ ~loc[c].warned
                        /\ loc[c].downloaded <=> args[c].zone \notin disk.cached
                   ELSE /\ ret[c] = None
                        /\ loc[c].warned
                        /\ ~loc[c].downloaded
                        /\ disk.downloads[args[c].zone] = 0

\* the locals of a call of get_inflow_entsoe or get_demand_entsoe show no
\* client and no query
NothingQueried == ~loc.client /\ loc.queries = <<>>

\* tmp or ssr has no DatetimeIndex, or the two differ in length
BadSeries ==
    \/ ~args.tmp.dtindex
    \/ ~args.ssr.dtindex
    \/ Len(args.tmp.data) # Len(args.ssr.data)

\* the timeline is no DatetimeIndex, or has no timezone
BadTimeline == ~args.timeline.dtindex \/ ~args.timeline.tz

\* C12: a call of get_demand_met or get_PV_cf whose tmp or ssr has no
\* DatetimeIndex or whose tmp and ssr differ in length, and a call of
\* get_inflow_entsoe or get_demand_entsoe whose timeline is no DatetimeIndex
\* or has no timezone, can only end in an AssertionError: it never gets past
\* the asserts, its locals stay as they were at the call (no shift, no
\* predictors, no client, no query) and nothing is returned.
C12_FailFast ==
    /\ (fn \in {"get_demand_met", "get_PV_cf"} /\ BadSeries)
       => /\ pc \in {"call", "raised"}
          /\ pc = "raised" => err = "AssertionError"
          /\ pc = "call" => err = ""
          /\ loc = (IF fn = "get_demand_met" THEN DemandLocals(args) ELSE PVLocals(args))
          /\ loc.shifts = 0
          /\ ret = NoSeries
    /\ (fn \in {"get_inflow_entsoe", "get_demand_entsoe"} /\ BadTimeline)
       => /\ pc \in {"call", "raised"}
          /\ pc = "raised" => err = "AssertionError"
          /\ pc = "call" => err = ""
          /\ NothingQueried
          /\ ret = <<>>

C12_Witness ==
    /\ fn = "get_demand_entsoe"
    /\ pc = "raised" /\ err = "AssertionError"
    /\ args.timeline.dtindex /\ ~args.timeline.tz
    /\ args.platform.load # <<>>
    /\ NothingQueried

====
